---- MODULE Spec2Model ----
(***************************************************************************)
(* State-machine model of pubmed_blogger_automation.py: the pipeline of    *)
(* main() (search, fetch, summary generation, formatting, publishing,      *)
(* archive, status line) and the pure functions it is built from.          *)
(*                                                                         *)
(* Python strings are TLA+ strings.  A Python value that may be None, a    *)
(* string, a number, a list or a dict is a tagged tuple, so that values of *)
(* different Python types can be compared.  A function call yields a       *)
(* result that says whether the call returned or raised.                   *)
(***************************************************************************)
EXTENDS Integers, Sequences, FiniteSets, TLC

VARIABLES
    pc,               \* position of main(): the stage that runs next
    search_response,  \* what requests.get gave search_pubmed (or its fault)
    paper_id,         \* main's paper_id
    fetch_response,   \* what requests.get gave get_paper_details
    paper_details,    \* main's paper_details
    summary,          \* main's summary
    blog_post,        \* main's blog_post
    env,              \* the publishing credentials read from os.environ
    api,              \* how the Blogger client behaved in post_to_blogger
    success,          \* main's success
    file,             \* content of latest_blog_post.md
    opens,            \* number of times the archive file was opened for writing
    writes,           \* number of completed f.write calls
    out,              \* lines printed to stdout, in order
    calls,            \* external service calls issued, in order
    request,          \* the insert request handed to execute(), if any
    fault             \* the exception that left main(), if any

vars == <<pc, search_response, paper_id, fetch_response, paper_details, summary,
          blog_post, env, api, success, file, opens, writes, out, calls, request,
          fault>>

----------------------------------------------------------------------------
(* Python values *)

None == <<"None">>
S(s) == <<"str", s>>
Num(n) == <<"num", n>>
List(q) == <<"list", q>>
Dict(r) == <<"dict", r>>
Bool(b) == <<"bool", b>>

IsStr(v) == v[1] = "str"

\* Python truth value of v (`if v:`, `if not v:`)
Truthy(v) ==
    CASE v[1] = "None" -> FALSE
      [] v[1] = "str"  -> v[2] # ""
      [] v[1] = "num"  -> v[2] # 0
      [] v[1] = "list" -> Len(v[2]) > 0
      [] v[1] = "dict" -> DOMAIN v[2] # {}
      [] v[1] = "bool" -> v[2]

\* str(v) as an f-string renders it, for the values that reach an f-string here
FStr(v) == IF v = None THEN "None" ELSE v[2]

\* the outcome of a call: it returned a value, or it raised
Return(v) == [raised |-> FALSE, value |-> v]
Raise(e) == [raised |-> TRUE, exc |-> e]

----------------------------------------------------------------------------
(* String helpers *)

Char(s, i) == SubSeq(s, i, i)

Whitespace == {" ", "\t", "\n", "\r"}

RECURSIVE LStrip(_)
LStrip(s) ==
    IF Len(s) > 0 /\ Char(s, 1) \in Whitespace THEN LStrip(SubSeq(s, 2, Len(s))) ELSE s

RECURSIVE RStrip(_)
RStrip(s) ==
    IF Len(s) > 0 /\ Char(s, Len(s)) \in Whitespace
    THEN RStrip(SubSeq(s, 1, Len(s) - 1)) ELSE s

\* str.strip()
Strip(s) == RStrip(LStrip(s))

\* s[:n]
Prefix(s, n) == SubSeq(s, 1, IF n < Len(s) THEN n ELSE Len(s))

\* position at or after i of the first occurrence of the one-character sep
\* in s, 0 if none
FindFrom(s, sep, i) ==
    LET hits == {j \in i..Len(s) : Char(s, j) = sep} IN
    IF hits = {} THEN 0 ELSE CHOOSE j \in hits : \A k \in hits : j <= k

\* str.split(sep) for a one-character sep: the list of segments
RECURSIVE Split(_, _)
Split(s, sep) ==
    LET i == FindFrom(s, sep, 1) IN
    IF i = 0 THEN <<s>>
    ELSE <<SubSeq(s, 1, i - 1)>> \o Split(SubSeq(s, i + 1, Len(s)), sep)

\* sep.join(q) for a list q of strings
RECURSIVE Join(_, _)
Join(sep, q) ==
    IF Len(q) = 0 THEN ""
    ELSE IF Len(q) = 1 THEN q[1]
    ELSE q[1] \o sep \o Join(sep, Tail(q))

\* str.replace(old, new) for a one-character old: every occurrence of old,
\* left to right, gives way to new
Replace(s, old, new) == Join(new, Split(s, old))

\* [f(x) for x in q if p(x)] building blocks
RECURSIVE SelectTruthy(_)
SelectTruthy(q) ==
    IF Len(q) = 0 THEN <<>>
    ELSE (IF Truthy(q[1]) THEN <<q[1][2]>> ELSE <<>>) \o SelectTruthy(Tail(q))

\* `sub in s` for strings
IsSubstring(sub, s) ==
    \E i \in 1..(Len(s) + 1) :
        i + Len(sub) - 1 <= Len(s) /\ SubSeq(s, i, i + Len(sub) - 1) = sub

----------------------------------------------------------------------------
(* search_pubmed *)

\* `key in v`
Contains(key, v) ==
    CASE v[1] = "dict" -> Return(key \in DOMAIN v[2])
      [] v[1] = "list" -> Return(\E i \in 1..Len(v[2]) : v[2][i] = S(key))
      [] v[1] = "str"  -> Return(IsSubstring(key, v[2]))
      [] OTHER         -> Raise("TypeError")

\* `v[key]` for a string key
GetItem(v, key) ==
    CASE v[1] = "dict" -> IF key \in DOMAIN v[2] THEN Return(v[2][key]) ELSE Raise("KeyError")
      [] OTHER         -> Raise("TypeError")

\* a slip in Index0: the last item, v[-1]
IndexLast(v) ==
    CASE v[1] = "list" -> IF Len(v[2]) > 0 THEN Return(v[2][Len(v[2])]) ELSE Raise("IndexError")
      [] OTHER         -> Raise("TypeError")

\* `v[0]`
Index0(v) ==
    CASE v[1] = "list" -> IF Len(v[2]) > 0 THEN Return(v[2][1]) ELSE Raise("IndexError")
      [] v[1] = "str"  -> IF Len(v[2]) > 0 THEN Return(S(Char(v[2], 1))) ELSE Raise("IndexError")
      [] v[1] = "dict" -> Raise("KeyError")
      [] OTHER         -> Raise("TypeError")

TransportFault == [kind |-> "transport_fault"]
HttpResponse(status, body) == [kind |-> "response", status_code |-> status, body |-> body]
NonJson == <<"nonjson">>
Json(v) == <<"json", v>>

\* response.json()
ResponseJson(response) ==
    IF response.body[1] = "json" THEN Return(response.body[2]) ELSE Raise("JSONDecodeError")

\* lines 51-57, once search_results is bound
FirstId(search_results) ==
    LET has_result == Contains("esearchresult", search_results) IN
    IF has_result.raised THEN has_result
    ELSE IF ~has_result.value THEN Return(None)
    ELSE
    LET esearchresult == GetItem(search_results, "esearchresult") IN
    IF esearchresult.raised THEN esearchresult
    ELSE
    LET has_idlist == Contains("idlist", esearchresult.value) IN
    IF has_idlist.raised THEN has_idlist
    ELSE IF ~has_idlist.value THEN Return(None)
    ELSE
    LET id_list == GetItem(esearchresult.value, "idlist") IN
    IF id_list.raised THEN id_list
    ELSE IF Truthy(id_list.value) THEN Index0(id_list.value)
    ELSE Return(None)

\* search_pubmed, given what requests.get did
search_pubmed(response) ==
    IF response.kind = "transport_fault" THEN Raise("RequestException")
    ELSE
    LET search_results == ResponseJson(response) IN
    IF search_results.raised THEN search_results
    ELSE FirstId(search_results.value)

\* the search responses the model draws from
MaxIds == 2
Ids == {"12345", "38000001"}

RECURSIVE SeqsUpTo(_, _)
SeqsUpTo(A, n) ==
    IF n = 0 THEN {<<>>}
    ELSE LET shorter == SeqsUpTo(A, n - 1) IN
         shorter \cup {Append(q, a) : q \in {r \in shorter : Len(r) = n - 1}, a \in A}

IdLists == {List(q) : q \in SeqsUpTo({S(i) : i \in Ids}, MaxIds)}

SearchBodies ==
    {NonJson,
     Json(None),
     Json(List(<<>>)),
     Json(Dict([error |-> S("API rate limit exceeded")])),
     Json(Dict([esearchresult |-> Dict([ERROR |-> S("Invalid db name specified")])])),
     Json(Dict([esearchresult |-> None]))}
    \cup {Json(Dict([esearchresult |-> Dict([idlist |-> l])])) : l \in IdLists}

SearchResponses == {TransportFault} \cup {HttpResponse(200, b) : b \in SearchBodies}

----------------------------------------------------------------------------
(* get_paper_details *)

\* An element of the parsed XML is <<"el", text>>; ElementTree's .text is None
\* for an element without character data (<LastName/>) and a non-empty
\* string otherwise.  find() gives None when no element matches.
El(text) == <<"el", text>>
Text(element) == element[2]

Malformed == <<"malformed">>
Xml(root) == <<"xml", root>>

\* ElementTree.fromstring(response.content)
FromString(content) ==
    IF content[1] = "xml" THEN Return(content[2]) ELSE Raise("ParseError")

\* lines 98-105: the authors list built by the loop over author_elements
RECURSIVE AuthorEntries(_)
AuthorEntries(author_elements) ==
    IF Len(author_elements) = 0 THEN <<>>
    ELSE
    LET author == author_elements[1]
        last_name == author.LastName
        fore_name == author.ForeName
        entry ==
            IF last_name # None /\ fore_name # None
            THEN <<S(FStr(Text(fore_name)) \o " " \o FStr(Text(last_name)))>>
            ELSE IF last_name # None THEN <<Text(last_name)>>
            ELSE <<>>
    IN entry \o AuthorEntries(Tail(author_elements))

\* sep.join(q) for a list of Python values: a None item raises
JoinValues(sep, q) ==
    IF \E i \in 1..Len(q) : ~IsStr(q[i]) THEN Raise("TypeError")
    ELSE Return(S(Join(sep, [i \in 1..Len(q) |-> q[i][2]])))

\* line 107
AuthorString(authors) ==
    IF Len(authors) > 0 THEN JoinValues(", ", authors) ELSE Return(S("Unknown Authors"))

\* line 83
TitleOf(article) ==
    IF article.ArticleTitle # None THEN Text(article.ArticleTitle)
    ELSE S("No title available")

\* lines 86-87
AbstractOf(article) ==
    IF Len(article.AbstractText) > 0
    THEN S(Join(" ", SelectTruthy(article.AbstractText)))
    ELSE S("No abstract available")

\* lines 90-91
JournalOf(article) ==
    IF article.JournalTitle # None THEN Text(article.JournalTitle)
    ELSE S("Unknown Journal")

\* lines 93-94
PubDateOf(article) == S(Join(" ", SelectTruthy(article.PubDate)))

PubmedUrl(id) == S("https://pubmed.ncbi.nlm.nih.gov/" \o FStr(id) \o "/")

\* get_paper_details, given what requests.get did
get_paper_details(id, response) ==
    IF response.kind = "transport_fault" THEN Raise("RequestException")
    ELSE IF response.status_code # 200 THEN Return(None)
    ELSE
    LET root == FromString(response.body) IN
    IF root.raised THEN root
    ELSE
    LET found == root.value.Article IN
    IF found = None THEN Return(None)
    ELSE
    LET article == found[2]
        author_string == AuthorString(AuthorEntries(article.Author)) IN
    IF author_string.raised THEN author_string
    ELSE Return(Dict([id         |-> id,
                      title      |-> TitleOf(article),
                      abstract   |-> AbstractOf(article),
                      journal    |-> JournalOf(article),
                      pub_date   |-> PubDateOf(article),
                      authors    |-> author_string.value,
                      pubmed_url |-> PubmedUrl(id)]))

\* A parsed article: what the structural paths of lines 82-101 find in it
Article(title, abstract, journal, pub_date, author) ==
    <<"el", [ArticleTitle |-> title, AbstractText |-> abstract, JournalTitle |-> journal,
             PubDate |-> pub_date, Author |-> author]>>

Root(article) == [Article |-> article]

\* the documents the model draws from
MaxAuthors == 2
MaxAbstractParts == 2

\* find() gives None or an element, with or without text
NameElements(names) == {None, El(None)} \cup {El(S(n)) : n \in names}
TitleElements == {None, El(None), El(S("Drug X Reduces Risk: A Trial"))}
JournalElements == {None, El(None), El(S("J Med"))}
\* findall() gives a list of elements; the lists here hold their .text
AbstractLists == SeqsUpTo({None, S("Patients improved.")}, MaxAbstractParts)
PubDateLists == {<<>>, <<None>>, <<S("2024"), S("Jan")>>}

\* the documents the whole pipeline draws from
PipelineArticles ==
    {Article(t, a, j, <<S("2024"), S("Jan")>>, au) :
        t \in TitleElements,
        a \in {<<>>, <<S("Patients improved.")>>},
        j \in {None, El(S("J Med"))},
        au \in {<<>>,
                <<[LastName |-> El(S("Roe")), ForeName |-> El(S("Jo"))]>>,
                <<[LastName |-> El(None), ForeName |-> None]>>}}

FetchResponsesOf(articles) ==
    {TransportFault, HttpResponse(404, Malformed), HttpResponse(200, Malformed),
     HttpResponse(200, Xml(Root(None)))}
    \cup {HttpResponse(200, Xml(Root(a))) : a \in articles}

----------------------------------------------------------------------------
(* generate_summary *)

\* What openai.ChatCompletion.create did: it raised, or it gave a response
\* whose first choice has this message content.
Completion(content) == [kind |-> "completion", content |-> content]
GenerationFault == [kind |-> "fault"]

GenerationOutcomes ==
    {GenerationFault, Completion(None), Completion(S("")), Completion(S("  \n")),
     Completion(S(" The trial found fewer strokes.\nIt matters.\n"))}

\* generate_summary: [value, printed]; every fault inside the try is caught
generate_summary(details, outcome) ==
    IF outcome.kind = "fault" \/ ~IsStr(outcome.content)
    THEN [value |-> None, printed |-> <<"Error generating summary">>]
    ELSE [value |-> S(Strip(outcome.content[2])), printed |-> <<>>]

----------------------------------------------------------------------------
(* create_blog_post *)

HeadlineMax == 70
HeadlineKeep == 67

\* a slip in ShortTitle: `>=` for `>`
ShortTitleOffByOne(title) ==
    LET short_title == Strip(Split(title, ":")[1])
    IN IF Len(short_title) >= HeadlineMax
       THEN Prefix(short_title, HeadlineKeep) \o "..."
       ELSE short_title

\* lines 162-165
ShortTitle(title) ==
    LET title_parts == Split(title, ":")
        short_title == Strip(title_parts[1])
    IN IF Len(short_title) > HeadlineMax
       THEN Prefix(short_title, HeadlineKeep) \o "..."
       ELSE short_title

HeadlinePrefix == "# Today's Medical Research: "

\* lines 167-176
Render(short_title, today, details, text) ==
    HeadlinePrefix \o short_title \o "\n\n**Date:** " \o today
    \o "\n\n## " \o FStr(details.title) \o "\n\n" \o text
    \o "\n\n**Source:** [" \o FStr(details.title) \o " (PMID: " \o FStr(details.id)
    \o ")](" \o FStr(details.pubmed_url) \o ")\n"

\* create_blog_post: None has no split
create_blog_post(details, text, today) ==
    IF ~IsStr(details.title) THEN Raise("AttributeError")
    ELSE Return(S(Render(ShortTitle(details.title[2]), today, details, text)))

Dates == {"January 05, 2024"}

----------------------------------------------------------------------------
(* post_to_blogger *)

\* os.environ.get gives None for an unset variable, and "" for one set empty
CredentialValues == {None, S(""), S("secret")}
Environments ==
    {[BLOGGER_API_KEY |-> k, BLOGGER_BLOG_ID |-> b] :
        k \in CredentialValues, b \in CredentialValues}

\* a slip in MissingCredentials: the blog id is not looked at
MissingApiKeyOnly(e) == ~Truthy(e.BLOGGER_API_KEY)

\* line 185
MissingCredentials(e) == ~Truthy(e.BLOGGER_API_KEY) \/ ~Truthy(e.BLOGGER_BLOG_ID)

\* How the Blogger client behaves: the first of its uses that raises, if any
\* (build(), posts().insert(), request.execute(), response.get()).
ApiBehaviours == {"build_fault", "insert_fault", "execute_fault", "response_fault", "ok"}

\* lines 190-191
PostTitle(details) == "Medical Research Today: " \o Strip(Split(details.title[2], ":")[1])

\* lines 197-201, with the blogId of line 204
InsertRequest(post, details, e) ==
    Dict([blogId  |-> e.BLOGGER_BLOG_ID,
          kind    |-> S("blogger#post"),
          title   |-> S(PostTitle(details)),
          content |-> S(Replace(post, "\n", "<br>"))])

Outcome(result, printed, issued, req) ==
    [result |-> result, printed |-> printed, calls |-> issued, request |-> req]

\* post_to_blogger: its result, what it printed, the client calls it made and
\* the request it executed
post_to_blogger(post, details, e, behaviour) ==
    IF MissingCredentials(e)
    THEN Outcome(Return(Bool(FALSE)), <<"Missing Blogger API credentials">>, <<>>, None)
    ELSE IF ~IsStr(details.title)
    THEN Outcome(Raise("AttributeError"), <<>>, <<>>, None)
    ELSE IF behaviour = "build_fault"
    THEN Outcome(Raise("BuildError"), <<>>, <<"build">>, None)
    ELSE IF behaviour = "insert_fault"
    THEN Outcome(Return(Bool(FALSE)), <<"Error posting to Blogger">>,
                 <<"build", "insert">>, None)
    ELSE IF behaviour \in {"execute_fault", "response_fault"}
    THEN Outcome(Return(Bool(FALSE)), <<"Error posting to Blogger">>,
                 <<"build", "insert", "execute">>, InsertRequest(post, details, e))
    ELSE Outcome(Return(Bool(TRUE)), <<"Blog post published">>,
                 <<"build", "insert", "execute">>, InsertRequest(post, details, e))

----------------------------------------------------------------------------
(* main *)

Init ==
    /\ pc = "search"
    /\ search_response = None
    /\ paper_id = None
    /\ fetch_response = None
    /\ paper_details = None
    /\ summary = None
    /\ blog_post = None
    /\ env = None
    /\ api = None
    /\ success = None
    /\ file \in {None, S("# Today's Medical Research: yesterday's post\n")}
    /\ opens = 0
    /\ writes = 0
    /\ out = <<>>
    /\ calls = <<>>
    /\ request = None
    /\ fault = None

\* an exception leaves main(): the process ends with a traceback
Propagate(e) == pc' = "crashed" /\ fault' = S(e)

\* a slip in MainSearch: the message is printed and the `return` is missing
MainSearchNoReturn ==
    /\ pc = "search"
    /\ \E response \in SearchResponses :
        LET r == search_pubmed(response) IN
        /\ search_response' = response
        /\ calls' = Append(calls, "search")
        /\ IF r.raised
           THEN /\ Propagate(r.exc)
                /\ UNCHANGED <<paper_id, out>>
           ELSE /\ paper_id' = r.value
                /\ fault' = fault
                /\ pc' = "fetch"
                /\ out' = IF ~Truthy(r.value) THEN Append(out, "No recent papers found")
                          ELSE out
    /\ UNCHANGED <<fetch_response, paper_details, summary, blog_post, env, api,
                   success, file, opens, writes, request>>

\* lines 215-218
MainSearch ==
    /\ pc = "search"
    /\ \E response \in SearchResponses :
        LET r == search_pubmed(response) IN
        /\ search_response' = response
        /\ calls' = Append(calls, "search")
        /\ IF r.raised
           THEN /\ Propagate(r.exc)
                /\ UNCHANGED <<paper_id, out>>
           ELSE /\ paper_id' = r.value
                /\ fault' = fault
                /\ IF ~Truthy(r.value)
                   THEN pc' = "done" /\ out' = Append(out, "No recent papers found")
                   ELSE pc' = "fetch" /\ out' = out
    /\ UNCHANGED <<fetch_response, paper_details, summary, blog_post, env, api,
                   success, file, opens, writes, request>>

\* lines 221-224, the response drawn from `responses`
MainFetchFrom(responses) ==
    /\ pc = "fetch"
    /\ \E response \in responses :
        LET r == get_paper_details(paper_id, response) IN
        /\ fetch_response' = response
        /\ calls' = Append(calls, "fetch")
        /\ IF r.raised
           THEN /\ Propagate(r.exc)
                /\ UNCHANGED <<paper_details, out>>
           ELSE /\ paper_details' = r.value
                /\ fault' = fault
                /\ IF ~Truthy(r.value)
                   THEN /\ pc' = "done"
                        /\ out' = Append(out, "Could not retrieve details for paper ID: "
                                              \o FStr(paper_id))
                   ELSE pc' = "generate" /\ out' = out
    /\ UNCHANGED <<search_response, paper_id, summary, blog_post, env, api, success,
                   file, opens, writes, request>>

MainFetch == MainFetchFrom(FetchResponsesOf(PipelineArticles))

\* a slip in MainGenerate: a failed generation is tried once more
MainGenerateRetry ==
    /\ pc = "generate"
    /\ \E outcome \in GenerationOutcomes, again \in GenerationOutcomes :
        LET first == generate_summary(paper_details[2], outcome)
            r == IF Truthy(first.value) THEN first
                 ELSE generate_summary(paper_details[2], again)
        IN
        /\ summary' = r.value
        /\ calls' = calls \o (IF Truthy(first.value) THEN <<"generate">>
                              ELSE <<"generate", "generate">>)
        /\ IF ~Truthy(r.value)
           THEN pc' = "done" /\ out' = out \o r.printed \o <<"Failed to generate summary">>
           ELSE pc' = "create" /\ out' = out \o r.printed
    /\ UNCHANGED <<search_response, paper_id, fetch_response, paper_details, blog_post,
                   env, api, success, file, opens, writes, request, fault>>

\* lines 227-230
MainGenerate ==
    /\ pc = "generate"
    /\ \E outcome \in GenerationOutcomes :
        LET r == generate_summary(paper_details[2], outcome) IN
        /\ summary' = r.value
        /\ calls' = Append(calls, "generate")
        /\ IF ~Truthy(r.value)
           THEN pc' = "done" /\ out' = out \o r.printed \o <<"Failed to generate summary">>
           ELSE pc' = "create" /\ out' = out \o r.printed
    /\ UNCHANGED <<search_response, paper_id, fetch_response, paper_details, blog_post,
                   env, api, success, file, opens, writes, request, fault>>

\* line 233
MainCreate ==
    /\ pc = "create"
    /\ \E today \in Dates :
        LET r == create_blog_post(paper_details[2], summary[2], today) IN
        IF r.raised
        THEN Propagate(r.exc) /\ UNCHANGED blog_post
        ELSE pc' = "publish" /\ blog_post' = r.value /\ fault' = fault
    /\ UNCHANGED <<search_response, paper_id, fetch_response, paper_details, summary,
                   env, api, success, file, opens, writes, out, calls, request>>

\* line 236
MainPublish ==
    /\ pc = "publish"
    /\ \E e \in Environments, behaviour \in ApiBehaviours :
        LET r == post_to_blogger(blog_post[2], paper_details[2], e, behaviour) IN
        /\ env' = Dict(e)
        \* the client is not used when the credentials are missing
        /\ api' = IF MissingCredentials(e) THEN None ELSE S(behaviour)
        /\ out' = out \o r.printed
        /\ calls' = calls \o r.calls
        /\ request' = r.request
        /\ IF r.result.raised
           THEN Propagate(r.result.exc) /\ UNCHANGED success
           ELSE pc' = "archive" /\ success' = r.result.value /\ fault' = fault
    /\ UNCHANGED <<search_response, paper_id, fetch_response, paper_details, summary,
                   blog_post, file, opens, writes>>

\* What the file system does at lines 239-240: open() raises, f.write()
\* raises after open() has truncated the file, or both succeed.
ArchiveBehaviours == {"open_fault", "write_fault", "ok"}

\* lines 239-240
MainArchive ==
    /\ pc = "archive"
    /\ \E behaviour \in ArchiveBehaviours :
        CASE behaviour = "open_fault" ->
                /\ Propagate("OSError")
                /\ UNCHANGED <<file, opens, writes>>
          [] behaviour = "write_fault" ->
                /\ Propagate("OSError")
                /\ file' = S("")
                /\ opens' = opens + 1
                /\ writes' = writes
          [] behaviour = "ok" ->
                /\ pc' = "report"
                /\ file' = blog_post
                /\ opens' = opens + 1
                /\ writes' = writes + 1
                /\ fault' = fault
    /\ UNCHANGED <<search_response, paper_id, fetch_response, paper_details, summary,
                   blog_post, env, api, success, out, calls, request>>

\* lines 242-245
MainReport ==
    /\ pc = "report"
    /\ pc' = "done"
    /\ out' = Append(out, IF Truthy(success) THEN "Automation completed successfully"
                          ELSE "Automation completed with errors")
    /\ UNCHANGED <<search_response, paper_id, fetch_response, paper_details, summary,
                   blog_post, env, api, success, file, opens, writes, calls, request,
                   fault>>

Next ==
    \/ MainSearch
    \/ MainFetch
    \/ MainGenerate
    \/ MainCreate
    \/ MainPublish
    \/ MainArchive
    \/ MainReport

Spec == Init /\ [][Next]_vars

----------------------------------------------------------------------------
(* get_paper_details alone, on every combination of document parts *)

TwoNameNodes ==
    {[LastName |-> l, ForeName |-> f] :
        l \in NameElements({"Roe", "Li"}), f \in NameElements({"Jo"})}

\* the author lists, with the other parts of the document fixed
AuthorArticles ==
    {Article(El(S("Drug X Reduces Risk: A Trial")), <<S("Patients improved.")>>,
             El(S("J Med")), <<S("2024"), S("Jan")>>, au) :
        au \in SeqsUpTo(TwoNameNodes, MaxAuthors)}

\* the other parts of the document, with two author lists
FieldArticles ==
    {Article(t, a, j, d, au) :
        t \in TitleElements, a \in AbstractLists, j \in JournalElements,
        d \in PubDateLists,
        au \in {<<>>, <<[LastName |-> El(S("Roe")), ForeName |-> El(S("Jo"))]>>}}

SearchFound(id) ==
    HttpResponse(200, Json(Dict([esearchresult |-> Dict([idlist |-> List(<<S(id)>>)])])))

\* main() after a search that found "12345"
InitFetch ==
    /\ pc = "fetch"
    /\ search_response = SearchFound("12345")
    /\ paper_id = S("12345")
    /\ fetch_response = None
    /\ paper_details = None
    /\ summary = None
    /\ blog_post = None
    /\ env = None
    /\ api = None
    /\ success = None
    /\ file = None
    /\ opens = 0
    /\ writes = 0
    /\ out = <<>>
    /\ calls = <<"search">>
    /\ request = None
    /\ fault = None

MainFetchAny == MainFetchFrom(FetchResponsesOf(AuthorArticles \cup FieldArticles))

SpecFetch == InitFetch /\ [][MainFetchAny]_vars

----------------------------------------------------------------------------
(* create_blog_post alone, on titles around the truncation threshold *)

MaxSegment == 72

Sample ==
    "Drug X reduces the risk of stroke in a large cohort of older adults treated for hypertension across many sites and years"

Titles ==
    {lead \o Prefix(Sample, n) \o trail \o tail :
        lead \in {"", " "}, n \in 0..MaxSegment, trail \in {"", " "},
        tail \in {"", ":", ": A Trial", " : A Trial: Part 2"}}

DetailsWithTitle(title) ==
    Dict([id         |-> S("12345"),
          title      |-> S(title),
          abstract   |-> S("Patients improved."),
          journal    |-> S("J Med"),
          pub_date   |-> S("2024 Jan"),
          authors    |-> S("Unknown Authors"),
          pubmed_url |-> PubmedUrl(S("12345"))])

\* main() after search, fetch and generation have succeeded
InitCreate ==
    /\ pc = "create"
    /\ search_response = SearchFound("12345")
    /\ paper_id = S("12345")
    /\ fetch_response = None
    /\ \E title \in Titles : paper_details = DetailsWithTitle(title)
    /\ summary = S("The trial found fewer strokes.")
    /\ blog_post = None
    /\ env = None
    /\ api = None
    /\ success = None
    /\ file = None
    /\ opens = 0
    /\ writes = 0
    /\ out = <<>>
    /\ calls = <<"search", "fetch", "generate">>
    /\ request = None
    /\ fault = None

SpecCreate == InitCreate /\ [][MainCreate]_vars

----------------------------------------------------------------------------
(* Properties *)

IsPrefixOf(p, q) == Len(p) <= Len(q) /\ \A i \in 1..Len(p) : p[i] = q[i]
Occurs(x, q) == \E i \in 1..Len(q) : q[i] = x
Ended == pc \in {"done", "crashed"}
ArchiveFaulted == fault = S("OSError")
StatusLines == {"Automation completed successfully", "Automation completed with errors"}
StatusCount == Cardinality({i \in 1..Len(out) : out[i] \in StatusLines})

\* C1: a run that produced a document (stages 1-4 succeeded) ends with the
\* archive file opened and written exactly once, holding that document,
\* whatever the publish stage did.  (A fault of the archive write itself is
\* outside the claim.)
C1_ArchivedOnceWhateverPublishDid ==
    (Ended /\ blog_post # None /\ ~ArchiveFaulted)
        => (opens = 1 /\ writes = 1 /\ file = blog_post)

\* C2: whenever the Blogger client raised at any point of its use (build,
\* insert, execute), post_to_blogger returned False to main instead of raising.
C2_ClientFaultNeverPropagates ==
    (api \in {S("build_fault"), S("insert_fault"), S("execute_fault"), S("response_fault")})
        => (success = Bool(FALSE) /\ fault \in {None, S("OSError")})

\* C3: when a stage among 1-3 gives its failure outcome, the run has ended at
\* that stage: no later call was issued, nothing was published, the archive
\* file was neither opened nor written; after an empty search the only output
\* is "No recent papers found".
SearchFoundNothing == Len(calls) >= 1 /\ fault = None /\ paper_id = None
FetchFoundNothing == Len(calls) >= 2 /\ fault = None /\ paper_details = None
GenerationFailed == Len(calls) >= 3 /\ ~Truthy(summary)
NothingPublishedOrArchived ==
    /\ pc = "done"
    /\ blog_post = None /\ env = None /\ success = None /\ request = None
    /\ opens = 0 /\ writes = 0
C3_FailureEndsTheRun ==
    /\ SearchFoundNothing =>
          /\ NothingPublishedOrArchived
          /\ calls = <<"search">>
          /\ out = <<"No recent papers found">>
    /\ FetchFoundNothing /\ ~SearchFoundNothing =>
          /\ NothingPublishedOrArchived
          /\ calls = <<"search", "fetch">>
          /\ Len(out) = 1
    /\ GenerationFailed /\ ~FetchFoundNothing /\ ~SearchFoundNothing =>
          /\ NothingPublishedOrArchived
          /\ calls = <<"search", "fetch", "generate">>
          /\ out[Len(out)] = "Failed to generate summary"
C3_Witness ==
    /\ SearchFoundNothing
    /\ search_response = HttpResponse(200, Json(Dict([esearchresult |->
                             Dict([idlist |-> List(<<>>)])])))
    /\ pc = "done"

\* C5: once post_to_blogger has run with either credential unset or empty, it
\* has returned False, no client was built and no request was made or
\* executed, and the run is at the archive write or past it.
Absent(v) == v = None \/ v = S("")
EitherCredentialAbsent ==
    env # None /\ (Absent(env[2].BLOGGER_API_KEY) \/ Absent(env[2].BLOGGER_BLOG_ID))
C5_MissingCredentialsNoRequest ==
    EitherCredentialAbsent =>
        /\ success = Bool(FALSE)
        /\ ~Occurs("build", calls) /\ ~Occurs("insert", calls) /\ ~Occurs("execute", calls)
        /\ request = None
        /\ \/ pc \in {"archive", "report", "done"}
           \/ pc = "crashed" /\ ArchiveFaulted
C5_Witness ==
    /\ env # None
    /\ env[2].BLOGGER_API_KEY = S("secret") /\ env[2].BLOGGER_BLOG_ID = None
    /\ pc = "report" /\ writes = 1

\* C6: the external calls of a run are an initial part of search, fetch,
\* generation, publish (build, insert, execute), so each happens at most once
\* and in that order; fetch only after the search gave an identifier,
\* generation only after the fetch gave a record, publish only after the
\* generation gave a summary.
C6_CallsOnceInOrder ==
    /\ IsPrefixOf(calls, <<"search", "fetch", "generate", "build", "insert", "execute">>)
    /\ Occurs("fetch", calls) => Truthy(paper_id)
    /\ Occurs("generate", calls) => paper_details # None
    /\ Occurs("build", calls) => Truthy(summary)
C6_Witness ==
    calls = <<"search", "fetch", "generate", "build", "insert", "execute">> /\ pc = "done"

\* The identifier list of a response body, when the body is a JSON object
\* whose esearchresult is an object whose idlist is a list; <<>> otherwise.
IdListOf(body) ==
    IF /\ body[1] = "json" /\ body[2][1] = "dict"
       /\ "esearchresult" \in DOMAIN body[2][2]
       /\ body[2][2].esearchresult[1] = "dict"
       /\ "idlist" \in DOMAIN body[2][2].esearchresult[2]
       /\ body[2][2].esearchresult[2].idlist[1] = "list"
    THEN body[2][2].esearchresult[2].idlist[2]
    ELSE <<>>
SearchResponded == pc # "search" /\ search_response.kind = "response"
SearchRaised == pc = "crashed" /\ calls = <<"search">>
FirstOrNone(ids) == IF Len(ids) > 0 THEN ids[1] ELSE None

\* C7 as stated: once a response is received, search_pubmed returns the first
\* identifier of a non-empty list and None in every other case, the
\* malformed (non-JSON) body included, and does not raise.
C7_MalformedBodyIsNoResults ==
    SearchResponded =>
        /\ ~SearchRaised
        /\ paper_id = FirstOrNone(IdListOf(search_response.body))

\* C7 as amended: once a response is received whose body is a JSON object (in
\* which esearchresult, when present, is an object and idlist, when present,
\* a list), search_pubmed returns the first identifier of a non-empty list
\* and None when the list is empty or the esearchresult/idlist structure is
\* missing; a non-JSON body makes response.json() raise, and the fault
\* leaves search_pubmed and main.
WellShaped(body) ==
    /\ body[1] = "json" /\ body[2][1] = "dict"
    /\ "esearchresult" \in DOMAIN body[2][2] =>
          /\ body[2][2].esearchresult[1] = "dict"
          /\ "idlist" \in DOMAIN body[2][2].esearchresult[2] =>
                body[2][2].esearchresult[2].idlist[1] = "list"
C7_FirstIdOrNoneElseRaises ==
    SearchResponded =>
        /\ WellShaped(search_response.body) =>
              /\ ~SearchRaised
              /\ paper_id = FirstOrNone(IdListOf(search_response.body))
        /\ search_response.body = NonJson =>
              /\ SearchRaised
              /\ fault = S("JSONDecodeError")
              /\ paper_id = None /\ out = <<>>
C7_Witness ==
    /\ SearchResponded
    /\ IdListOf(search_response.body) = <<S("38000001"), S("12345")>>
    /\ paper_id = S("38000001")

\* C8: a run that reached the publish stage ends normally with the document
\* archived and exactly one status line, printed last: "completed
\* successfully" exactly when post_to_blogger reported success, "completed
\* with errors" otherwise.  (A fault of the archive write itself is outside
\* the claim.)
PublishReached == Len(calls) >= 3 /\ blog_post # None /\ pc # "publish"
C8_StatusLineAfterArchive ==
    /\ (PublishReached /\ Ended /\ ~ArchiveFaulted) =>
          /\ pc = "done"
          /\ writes = 1 /\ file = blog_post
          /\ StatusCount = 1
          /\ out[Len(out)] = (IF success = Bool(TRUE)
                              THEN "Automation completed successfully"
                              ELSE "Automation completed with errors")
    /\ (PublishReached /\ StatusCount > 0) => writes = 1

\* C4: every record get_paper_details returned has all seven fields present
\* as strings, and title, abstract, journal and authors are never None and
\* never empty (only pub_date may be "").
RecordReturned == Len(calls) >= 2 /\ paper_details # None
RecordFields == {"id", "title", "abstract", "journal", "pub_date", "authors", "pubmed_url"}
C4_EveryFieldIsAString ==
    RecordReturned =>
        /\ DOMAIN paper_details[2] = RecordFields
        /\ \A f \in RecordFields : IsStr(paper_details[2][f])
        /\ \A f \in {"title", "abstract", "journal", "authors"} :
              paper_details[2][f] # S("")

\* The author nodes of the fetched document, in document order.
FetchedAuthors == fetch_response.body[2].Article[2].Author
HasText(element) == element # None /\ Text(element) # None

\* the authors string the claim describes, a node "having" a name when the
\* name element is there and has text
RECURSIVE EntriesByText(_)
EntriesByText(nodes) ==
    IF Len(nodes) = 0 THEN <<>>
    ELSE (IF HasText(nodes[1].LastName)
          THEN IF HasText(nodes[1].ForeName)
               THEN <<Text(nodes[1].ForeName)[2] \o " " \o Text(nodes[1].LastName)[2]>>
               ELSE <<Text(nodes[1].LastName)[2]>>
          ELSE <<>>)
         \o EntriesByText(Tail(nodes))

\* the same, a node "having" a name when the name element is there, an
\* element without text standing for the empty name
TextOrEmpty(element) == IF Text(element) = None THEN "" ELSE Text(element)[2]
RECURSIVE EntriesByElement(_)
EntriesByElement(nodes) ==
    IF Len(nodes) = 0 THEN <<>>
    ELSE (IF nodes[1].LastName # None
          THEN IF nodes[1].ForeName # None
               THEN <<TextOrEmpty(nodes[1].ForeName) \o " " \o TextOrEmpty(nodes[1].LastName)>>
               ELSE <<TextOrEmpty(nodes[1].LastName)>>
          ELSE <<>>)
         \o EntriesByElement(Tail(nodes))

JoinedOrSentinel(entries) ==
    IF Len(entries) = 0 THEN S("Unknown Authors") ELSE S(Join(", ", entries))

\* C10: the authors field of a returned record is built in document order
\* from exactly the nodes that have a surname ("given-name surname", or the
\* surname alone without a given name), joined with ", ", and is "Unknown
\* Authors" exactly when no node contributes.  Either reading of "has a
\* name" is accepted.
C10_AuthorsFromSurnamedNodes ==
    RecordReturned =>
        paper_details[2].authors \in {JoinedOrSentinel(EntriesByText(FetchedAuthors)),
                                      JoinedOrSentinel(EntriesByElement(FetchedAuthors))}

\* C9: for a title with a colon, the headline of the document is the part
\* before the first colon, trimmed, cut to its first 67 characters plus "..."
\* when the trimmed part is longer than 70; it is never longer than 70, and
\* a part of exactly 70 characters is kept whole.
TitleIn == paper_details[2].title[2]
HasColon(s) == \E i \in 1..Len(s) : Char(s, i) = ":"
BeforeFirstColon(s) ==
    LET i == CHOOSE k \in 1..Len(s) :
                 Char(s, k) = ":" /\ \A j \in 1..(k - 1) : Char(s, j) # ":"
    IN SubSeq(s, 1, i - 1)
Trimmed(s) ==
    LET solid == {i \in 1..Len(s) : Char(s, i) \notin {" ", "\t", "\n", "\r"}} IN
    IF solid = {} THEN ""
    ELSE SubSeq(s, CHOOSE i \in solid : \A k \in solid : i <= k,
                   CHOOSE i \in solid : \A k \in solid : i >= k)
HeadlineOf(post) ==
    LET rest == SubSeq(post, Len(HeadlinePrefix) + 1, Len(post))
        stop == CHOOSE k \in 1..Len(rest) :
                    Char(rest, k) = "\n" /\ \A j \in 1..(k - 1) : Char(rest, j) # "\n"
    IN SubSeq(rest, 1, stop - 1)
DocumentCreated == pc = "publish" /\ blog_post # None
C9_HeadlineIsFirstSegment ==
    (DocumentCreated /\ HasColon(TitleIn)) =>
        LET segment == Trimmed(BeforeFirstColon(TitleIn))
            headline == HeadlineOf(blog_post[2])
        IN /\ SubSeq(blog_post[2], 1, Len(HeadlinePrefix)) = HeadlinePrefix
           /\ Len(segment) > 70 => headline = SubSeq(segment, 1, 67) \o "..."
           /\ Len(segment) <= 70 => headline = segment
           /\ Len(headline) <= 70
C9_Witness ==
    /\ DocumentCreated /\ HasColon(TitleIn)
    /\ Len(Trimmed(BeforeFirstColon(TitleIn))) = 71
    /\ Len(HeadlineOf(blog_post[2])) = 70


====
